---- MODULE Spec2Model ----
(***************************************************************************)
(* Capability negotiation primitives of crates/net/eth-wire               *)
(* (src/capability.rs): Capability, Capabilities with its cached eth      *)
(* flags, the RLP codec of a capability list, and SharedCapability with   *)
(* its resolution primitive and projections.                              *)
(*                                                                         *)
(* Names are modelled as the byte sequences of their UTF-8 text, so that  *)
(* name comparison and the wire codec work on the real data.              *)
(***************************************************************************)
EXTENDS Integers, Sequences, FiniteSets, TLC

(***************************************************************************)
(* Bounds of the model.                                                    *)
(***************************************************************************)
\* longest capability list that is constructed / advertised
MaxCaps == 2
\* offsets 0..MaxOffset (and the largest byte) are passed to SharedCapability::new
MaxOffset == 3
\* the static message-count table maps each eth version into 0..MaxMessages
MaxMessages == 2
\* number of bytes a received frame may be cut short by
MaxDrop == 1
\* longest sequence of SharedCapability::new calls that is recorded
MaxCalls == 2
\* longest list of shared capabilities resolved for one session
MaxShared == 2
\* largest message count a caller supplies for an unknown capability
MaxExtCount == 2

\* largest value of a u8 (version: u8, offset: u8)
U8Max == 255

(***************************************************************************)
(* Names, as UTF-8 bytes.                                                  *)
(***************************************************************************)
\* the literal "eth" compared against in is_eth_v66, is_eth_v67 and new
ETH == <<101, 116, 104>>
\* "Eth": differs from "eth" in letter case only
NameEthUpper == <<69, 116, 104>>
\* "les": another sub-protocol
NameLes == <<108, 101, 115>>
\* "a": a one-character name (a single byte below 0x80 on the wire)
NameA == <<97>>
\* "": the empty name
NameEmpty == <<>>
\* "xx...x", 56 characters: the shortest name whose length takes the long form
NameLong == [i \in 1..56 |-> 120]

\* names of advertised capabilities
CapNames == {ETH, NameEthUpper, NameA, NameEmpty, NameLong}
\* versions of advertised capabilities (usize): zero, an unsupported small
\* one, the two recognised ones, a one-byte value above 0x7f, a two-byte value
CapVersions == {0, 9, 66, 67, 200, 300}

(***************************************************************************)
(* Capability                                                              *)
(***************************************************************************)
Capability_new(name, version) == [name |-> name, version |-> version]

AllCapability == {Capability_new(n, v) : n \in CapNames, v \in CapVersions}

is_eth_v66_any_version(c) == c.name = ETH
is_eth_v66(c) == c.name = ETH /\ c.version = 66

is_eth_v67(c) == c.name = ETH /\ c.version = 67

\* Iterator::any, over the predicate's value on each element in turn
any(tested) == \E i \in 1..Len(tested) : tested[i]

\* value.iter() with is_eth_v66 / is_eth_v67 applied to each element
each_is_eth_v66(value) == [i \in 1..Len(value) |-> is_eth_v66(value[i])]

each_is_eth_v67(value) == [i \in 1..Len(value) |-> is_eth_v67(value[i])]

(***************************************************************************)
(* Capabilities                                                            *)
(***************************************************************************)
From_copied_flag(value) ==
    [inner |-> value, eth_66 |-> any(each_is_eth_v66(value)), eth_67 |-> any(each_is_eth_v66(value))]
From(value) ==
    [inner |-> value, eth_66 |-> any(each_is_eth_v66(value)), eth_67 |-> any(each_is_eth_v67(value))]

capabilities(self) == self.inner

into_inner(self) == self.inner

supports_eth_v67_only(self) == self.eth_67
supports_eth(self) == self.eth_67 \/ self.eth_66

supports_eth_v66(self) == self.eth_66

supports_eth_v67(self) == self.eth_67

(***************************************************************************)
(* RLP, the canonical binary encoding of the transport (reth_rlp).         *)
(***************************************************************************)
RECURSIVE to_be_bytes(_)
\* big-endian bytes of n without leading zeros
to_be_bytes(n) == IF n = 0 THEN <<>> ELSE to_be_bytes(n \div 256) \o <<n % 256>>

RECURSIVE from_be_bytes(_)
from_be_bytes(b) ==
    IF b = <<>> THEN 0
    ELSE from_be_bytes(SubSeq(b, 1, Len(b) - 1)) * 256 + b[Len(b)]

\* Header::encode: code is 0x80 for a string and 0xc0 for a list
Header_encode(list, payload_length) ==
    LET code == IF list THEN 192 ELSE 128
        be == to_be_bytes(payload_length)
    IN  IF payload_length < 56 THEN <<code + payload_length>>
        ELSE <<code + 55 + Len(be)>> \o be

\* a byte string: a single byte below 0x80 is its own encoding
encode_str(bytes) ==
    IF Len(bytes) = 1 /\ bytes[1] < 128 THEN bytes
    ELSE Header_encode(FALSE, Len(bytes)) \o bytes

\* an unsigned integer: zero is the empty string
encode_uint(n) ==
    IF n = 0 THEN <<128>>
    ELSE IF n < 128 THEN <<n>>
    ELSE Header_encode(FALSE, Len(to_be_bytes(n))) \o to_be_bytes(n)

\* derive(RlpEncodable) on Capability: the list of its fields, in order
Capability_encode(c) ==
    LET payload == encode_str(c.name) \o encode_uint(c.version)
    IN  Header_encode(TRUE, Len(payload)) \o payload

RECURSIVE concat_encoded(_)
concat_encoded(s) ==
    IF s = <<>> THEN <<>> ELSE Capability_encode(Head(s)) \o concat_encoded(Tail(s))

\* Vec<Capability>::encode
Vec_encode(s) ==
    LET payload == concat_encoded(s)
    IN  Header_encode(TRUE, Len(payload)) \o payload

DecodeErr(e) == [ok |-> FALSE, err |-> e]

drop(buf, n) == SubSeq(buf, n + 1, Len(buf))

take(buf, n) == SubSeq(buf, 1, n)

\* the header once its kind and payload length are read: the payload must be there
Header_checked(list, payload_length, rest) ==
    IF Len(rest) < payload_length THEN DecodeErr("InputTooShort")
    ELSE [ok |-> TRUE, list |-> list, payload_length |-> payload_length, rest |-> rest]

\* the long form: the length's own length, then the length, big-endian
Header_long(list, len_of_len, rest) ==
    IF Len(rest) < len_of_len THEN DecodeErr("InputTooShort")
    ELSE IF rest[1] = 0 THEN DecodeErr("LeadingZero")
    ELSE LET n == from_be_bytes(take(rest, len_of_len))
         IN  IF n < 56 THEN DecodeErr("NonCanonicalSize")
             ELSE Header_checked(list, n, drop(rest, len_of_len))

\* Header::decode: rest is the buffer positioned at the payload
Header_decode(buf) ==
    IF buf = <<>> THEN DecodeErr("InputTooShort")
    ELSE LET b == buf[1]
             rest == Tail(buf)
         IN  IF b < 128 THEN Header_checked(FALSE, 1, buf)
             ELSE IF b < 184 THEN
                 IF b = 129 /\ rest # <<>> /\ rest[1] < 128
                 THEN DecodeErr("NonCanonicalSingleByte")
                 ELSE Header_checked(FALSE, b - 128, rest)
             ELSE IF b < 192 THEN Header_long(FALSE, b - 183, rest)
             ELSE IF b < 248 THEN Header_checked(TRUE, b - 192, rest)
             ELSE Header_long(TRUE, b - 247, rest)

\* usize::decode
decode_uint(buf) ==
    LET h == Header_decode(buf)
    IN  IF ~h.ok THEN h
        ELSE IF h.list THEN DecodeErr("UnexpectedList")
        ELSE IF h.payload_length > 8 THEN DecodeErr("Overflow")
        ELSE IF h.payload_length > 0 /\ h.rest[1] = 0 THEN DecodeErr("LeadingZero")
        ELSE [ok |-> TRUE, val |-> from_be_bytes(take(h.rest, h.payload_length)),
              rest |-> drop(h.rest, h.payload_length)]

\* SmolStr::decode; the names of the model are ASCII, where from_utf8 accepts
\* exactly the bytes below 0x80
decode_str(buf) ==
    LET h == Header_decode(buf)
    IN  IF ~h.ok THEN h
        ELSE IF h.list THEN DecodeErr("UnexpectedList")
        ELSE IF \E i \in 1..h.payload_length : h.rest[i] >= 128 THEN DecodeErr("Custom")
        ELSE [ok |-> TRUE, val |-> take(h.rest, h.payload_length),
              rest |-> drop(h.rest, h.payload_length)]

\* derive(RlpDecodable) on Capability: a list holding name, then version
Capability_decode(buf) ==
    LET h == Header_decode(buf)
    IN  IF ~h.ok THEN h
        ELSE IF ~h.list THEN DecodeErr("UnexpectedString")
        ELSE LET name == decode_str(take(h.rest, h.payload_length))
             IN  IF ~name.ok THEN name
                 ELSE LET version == decode_uint(name.rest)
                      IN  IF ~version.ok THEN version
                          ELSE [ok |-> TRUE, val |-> Capability_new(name.val, version.val),
                                rest |-> drop(h.rest, h.payload_length)]

RECURSIVE decode_items(_)
\* the loop of Vec<T>::decode over the list's payload
decode_items(payload) ==
    IF payload = <<>> THEN [ok |-> TRUE, val |-> <<>>]
    ELSE LET c == Capability_decode(payload)
         IN  IF ~c.ok THEN c
             ELSE LET more == decode_items(c.rest)
                  IN  IF ~more.ok THEN more
                      ELSE [ok |-> TRUE, val |-> <<c.val>> \o more.val]

\* Vec<Capability>::decode
Vec_decode(buf) ==
    LET h == Header_decode(buf)
    IN  IF ~h.ok THEN h
        ELSE IF ~h.list THEN DecodeErr("UnexpectedString")
        ELSE decode_items(take(h.rest, h.payload_length))

\* impl Encodable for Capabilities
Capabilities_encode(self) == Vec_encode(self.inner)

Capabilities_decode_stale_flag(buf) ==
    LET inner == Vec_decode(buf)
    IN  IF ~inner.ok THEN inner
        ELSE [ok |-> TRUE,
              val |-> [inner |-> inner.val,
                       eth_66 |-> any(each_is_eth_v66(inner.val)),
                       eth_67 |-> FALSE]]
\* impl Decodable for Capabilities
Capabilities_decode(buf) ==
    LET inner == Vec_decode(buf)
    IN  IF ~inner.ok THEN inner
        ELSE [ok |-> TRUE,
              val |-> [inner |-> inner.val,
                       eth_66 |-> any(each_is_eth_v66(inner.val)),
                       eth_67 |-> any(each_is_eth_v67(inner.val))]]

(***************************************************************************)
(* State.                                                                  *)
(***************************************************************************)
VARIABLES
    input,      \* the Vec<Capability> handed to Capabilities::from
    caps,       \* the Capabilities value built from it
    wire,       \* the buffer holding an encoded capability list
    decoded,    \* the Result of Capabilities::decode on that buffer
    call,       \* the latest SharedCapability::new call: arguments and Result
    proj,       \* what name(), version(), offset(), num_messages() returned for it
    log,        \* a sequence of SharedCapability::new calls, arguments and Results
    session,    \* the shared capabilities resolved for one session, in order
    routed,     \* the latest message id dispatched and the capabilities it resolved to
    msgTable    \* the static table EthVersion -> number of messages

vars == <<input, caps, wire, decoded, call, proj, log, session, routed, msgTable>>

None == [some |-> FALSE]

Some(x) == [some |-> TRUE, val |-> x]

(***************************************************************************)
(* EthVersion (crate::version).                                            *)
(***************************************************************************)
\* the enumeration of supported eth versions
EthVersion == {"Eth66", "Eth67"}

\* `version as u8`: the discriminant of the enumeration
EthVersion_as_u8(version) == IF version = "Eth66" THEN 66 ELSE 67

\* EthVersion::try_from(u8); the error identifies the unsupported value
EthVersion_try_from(u8) ==
    IF u8 = 66 THEN [ok |-> TRUE, val |-> "Eth66"]
    ELSE IF u8 = 67 THEN [ok |-> TRUE, val |-> "Eth67"]
    ELSE [ok |-> FALSE, err |-> [ParseVersionError |-> u8]]

\* EthVersion::total_messages: a lookup in the static table
total_messages(version) == msgTable[version]

(***************************************************************************)
(* SharedCapability                                                        *)
(***************************************************************************)
Eth(version, offset) == [tag |-> "Eth", version |-> version, offset |-> offset]

UnknownCapability(name, version, offset) ==
    [tag |-> "UnknownCapability", name |-> name, version |-> version, offset |-> offset]

\* the `?` on try_from: From<ParseVersionError> for SharedCapabilityError
UnsupportedVersion(e) == [kind |-> "UnsupportedVersion", source |-> e]

to_ascii_lowercase(name) ==
    [i \in 1..Len(name) |-> IF name[i] >= 65 /\ name[i] <= 90 THEN name[i] + 32 ELSE name[i]]

SharedCapability_new_drops_offset(name, version, offset) ==
    IF name = ETH
    THEN LET v == EthVersion_try_from(version)
         IN  IF v.ok THEN [ok |-> TRUE, val |-> Eth(v.val, 0)]
             ELSE [ok |-> FALSE, err |-> UnsupportedVersion(v.err)]
    ELSE [ok |-> TRUE, val |-> UnknownCapability(name, version, offset)]
SharedCapability_new_unvalidated(name, version, offset) ==
    IF name = ETH /\ EthVersion_try_from(version).ok
    THEN [ok |-> TRUE, val |-> Eth(EthVersion_try_from(version).val, offset)]
    ELSE [ok |-> TRUE, val |-> UnknownCapability(name, version, offset)]
SharedCapability_new_ignore_case(name, version, offset) ==
    IF to_ascii_lowercase(name) = ETH
    THEN LET v == EthVersion_try_from(version)
         IN  IF v.ok THEN [ok |-> TRUE, val |-> Eth(v.val, offset)]
             ELSE [ok |-> FALSE, err |-> UnsupportedVersion(v.err)]
    ELSE [ok |-> TRUE, val |-> UnknownCapability(name, version, offset)]
SharedCapability_new_ordered(name, version, offset) ==
    IF log # <<>> /\ offset <= log[Len(log)].offset
    THEN [ok |-> FALSE, err |-> [kind |-> "UnknownCapability"]]
    ELSE IF name = ETH
    THEN LET v == EthVersion_try_from(version)
         IN  IF v.ok THEN [ok |-> TRUE, val |-> Eth(v.val, offset)]
             ELSE [ok |-> FALSE, err |-> UnsupportedVersion(v.err)]
    ELSE [ok |-> TRUE, val |-> UnknownCapability(name, version, offset)]
SharedCapability_new(name, version, offset) ==
    IF name = ETH
    THEN LET v == EthVersion_try_from(version)
         IN  IF v.ok THEN [ok |-> TRUE, val |-> Eth(v.val, offset)]
             ELSE [ok |-> FALSE, err |-> UnsupportedVersion(v.err)]
    ELSE [ok |-> TRUE, val |-> UnknownCapability(name, version, offset)]

name(self) == IF self.tag = "Eth" THEN ETH ELSE self.name

version(self) == IF self.tag = "Eth" THEN EthVersion_as_u8(self.version) ELSE self.version

offset_reads_version(self) == IF self.tag = "Eth" THEN self.offset ELSE self.version
offset(self) == IF self.tag = "Eth" THEN self.offset ELSE self.offset

num_messages_defaults(self) ==
    IF self.tag = "Eth" THEN [ok |-> TRUE, val |-> total_messages(self.version)]
    ELSE [ok |-> TRUE, val |-> 0]
num_messages(self) ==
    IF self.tag = "Eth" THEN [ok |-> TRUE, val |-> total_messages(self.version)]
    ELSE [ok |-> FALSE, err |-> [kind |-> "UnknownCapability"]]

(***************************************************************************)
(* Inputs.                                                                 *)
(***************************************************************************)
\* every list of at most MaxCaps advertised capabilities
CapLists == UNION {[1..n -> AllCapability] : n \in 0..MaxCaps}

\* names, version bytes and offsets passed to one SharedCapability::new call
SharedNames == {ETH, NameEthUpper, NameLes, NameEmpty}
U8 == 0..U8Max
Offsets == (0..MaxOffset) \cup {U8Max}

\* names and versions of the calls made in a sequence
SeqNames == {ETH, NameEthUpper, NameLes}
SeqVersions == {9, 66, 67}

\* every content the static table can have within the bound
Tables == [EthVersion -> 0..MaxMessages]
\* the table where no action reads it
IdleTable == [v \in EthVersion |-> MaxMessages]

\* message ids dispatched: every id of the widest session, and one beyond
MessageIds ==
    0..(MaxShared * (IF MaxMessages > MaxExtCount THEN MaxMessages ELSE MaxExtCount))

(***************************************************************************)
(* Init: nothing is constructed yet; the table holds its fixed contents.   *)
(***************************************************************************)
Init ==
    /\ input = None
    /\ caps = None
    /\ wire = None
    /\ decoded = None
    /\ call = None
    /\ proj = None
    /\ log = <<>>
    /\ session = <<>>
    /\ routed = None
    /\ msgTable \in Tables

(***************************************************************************)
(* Capability advertisement: construction, encoding, decoding.             *)
(***************************************************************************)
\* Capabilities::from(value), on the one list a run constructs
FromVec ==
    /\ ~input.some
    /\ ~wire.some
    /\ \E value \in CapLists :
           /\ input' = Some(value)
           /\ caps' = Some(From(value))
    /\ wire' = None
    /\ decoded' = None
    /\ call' = None
    /\ UNCHANGED <<proj, log, session, routed, msgTable>>

\* caps.encode(&mut out) into an empty buffer
Encode ==
    /\ caps.some
    /\ wire' = Some(Capabilities_encode(caps.val))
    /\ decoded' = None
    /\ UNCHANGED <<input, caps, call, proj, log, session, routed, msgTable>>

\* a peer's advertisement arrives, its last d bytes missing
Receive ==
    /\ ~input.some
    /\ ~wire.some
    /\ \E value \in CapLists, d \in 0..MaxDrop :
           LET frame == Capabilities_encode(From(value))
           IN  /\ d <= Len(frame)
               /\ wire' = Some(take(frame, Len(frame) - d))
    /\ input' = None
    /\ caps' = None
    /\ decoded' = None
    /\ call' = None
    /\ UNCHANGED <<proj, log, session, routed, msgTable>>

\* Capabilities::decode(&mut buf)
Decode ==
    /\ wire.some
    /\ decoded' = Some(Capabilities_decode(wire.val))
    /\ UNCHANGED <<input, caps, wire, call, proj, log, session, routed, msgTable>>

\* the handshake resolves the i-th advertised capability at some offset
ResolveAdvertised(i, o) ==
    /\ caps.some
    /\ i \in 1..Len(caps.val.inner)
    /\ caps.val.inner[i].version <= U8Max
    /\ LET c == caps.val.inner[i]
       IN  call' = Some([name |-> c.name, version |-> c.version, offset |-> o,
                         res |-> SharedCapability_new(c.name, c.version, o)])
    /\ UNCHANGED <<input, caps, wire, decoded, proj, log, session, routed, msgTable>>

(***************************************************************************)
(* SharedCapability: one call and its projections.                         *)
(***************************************************************************)
\* SharedCapability::new(name, version, offset), the one call of a run
New ==
    /\ ~call.some
    /\ \E n \in SharedNames, v \in U8, o \in Offsets :
           call' = Some([name |-> n, version |-> v, offset |-> o,
                         res |-> SharedCapability_new(n, v, o)])
    /\ proj' = None
    /\ UNCHANGED <<input, caps, wire, decoded, log, session, routed, msgTable>>

\* name(), version(), offset() and num_messages() of the value new returned
Inspect ==
    /\ call.some
    /\ call.val.res.ok
    /\ ~proj.some
    /\ LET self == call.val.res.val
       IN  proj' = Some([name |-> name(self), version |-> version(self),
                         offset |-> offset(self), num_messages |-> num_messages(self)])
    /\ UNCHANGED <<input, caps, wire, decoded, call, log, session, routed, msgTable>>

\* one more SharedCapability::new call in a sequence of calls, at any offset
NewInSequence(n, v, o) ==
    /\ Len(log) < MaxCalls
    /\ log' = Append(log, [name |-> n, version |-> v, offset |-> o,
                           res |-> SharedCapability_new(n, v, o)])
    /\ UNCHANGED <<input, caps, wire, decoded, call, proj, session, routed, msgTable>>

(***************************************************************************)
(* The session: one pass assigning running offsets, then dispatch.         *)
(***************************************************************************)
\* the first message id after the capabilities resolved so far
running_offset ==
    IF session = <<>> THEN 0
    ELSE offset(session[Len(session)].cap) + session[Len(session)].width

\* the next shared capability is resolved at the running offset; its width is
\* num_messages() where that succeeds and the count the caller knows otherwise
ResolveNext(n, v, count) ==
    /\ ~routed.some
    /\ Len(session) < MaxShared
    /\ \A i \in 1..Len(session) : name(session[i].cap) # n
    /\ running_offset <= U8Max
    /\ LET r == SharedCapability_new(n, v, running_offset)
       IN  /\ r.ok
           /\ session' = Append(session,
                  [cap |-> r.val,
                   width |-> IF num_messages(r.val).ok THEN num_messages(r.val).val
                             ELSE count])
    /\ UNCHANGED <<input, caps, wire, decoded, call, proj, log, routed, msgTable>>

\* the capabilities whose range [offset, offset + width) holds the id
resolves_to(id) ==
    {i \in 1..Len(session) :
        offset(session[i].cap) <= id /\ id < offset(session[i].cap) + session[i].width}

\* an incoming message id is routed
Dispatch(id) ==
    /\ routed' = Some([id |-> id, to |-> resolves_to(id)])
    /\ UNCHANGED <<input, caps, wire, decoded, call, proj, log, session, msgTable>>

(***************************************************************************)
(* Specifications. The components share no state, so each is explored on   *)
(* its own; Spec is all of them together.                                  *)
(***************************************************************************)
NextCaps ==
    \/ FromVec
    \/ Encode
    \/ Receive
    \/ Decode

NextAdvert ==
    \/ FromVec
    \/ \E i \in 1..MaxCaps, o \in Offsets : ResolveAdvertised(i, o)

NextShared ==
    \/ New
    \/ Inspect

NextCalls ==
    \E n \in SeqNames, v \in SeqVersions, o \in 0..MaxOffset : NewInSequence(n, v, o)

NextSession ==
    \/ \E n \in SeqNames, v \in SeqVersions, count \in 1..MaxExtCount : ResolveNext(n, v, count)
    \/ \E id \in MessageIds : Dispatch(id)

Next == NextCaps \/ NextAdvert \/ NextShared \/ NextCalls \/ NextSession

Spec == Init /\ [][Next]_vars

\* Init for the components that never read the table
InitIdle == Init /\ msgTable = IdleTable

SpecCaps == InitIdle /\ [][NextCaps]_vars

SpecAdvert == InitIdle /\ [][NextAdvert]_vars

SpecShared == Init /\ [][NextShared]_vars

SpecCalls == InitIdle /\ [][NextCalls]_vars

SpecSession == Init /\ [][NextSession]_vars

(***************************************************************************)
(* Properties.                                                             *)
(***************************************************************************)
\* the list holds a capability with this name and this version
has(list, n, v) == \E i \in 1..Len(list) : list[i].name = n /\ list[i].version = v

\* the cached flags of a Capabilities value say what its own sequence holds
flags_match(c) ==
    /\ supports_eth_v66(c) = has(capabilities(c), ETH, 66)
    /\ supports_eth_v67(c) = has(capabilities(c), ETH, 67)

\* C1: Capabilities::from(S) holds S element for element in the same order
\* (capabilities() and into_inner()), supports_eth_v66() / supports_eth_v67()
\* say whether S holds "eth" at 66 / 67, and a value produced by decode has
\* flags that agree with its own sequence in the same way.
C1_FlagsFollowInner ==
    /\ input.some =>
          /\ caps.some
          /\ capabilities(caps.val) = input.val
          /\ into_inner(caps.val) = input.val
          /\ supports_eth_v66(caps.val) = has(input.val, ETH, 66)
          /\ supports_eth_v67(caps.val) = has(input.val, ETH, 67)
    /\ (decoded.some /\ decoded.val.ok) => flags_match(decoded.val.val)

\* a list with "eth" at 67 but not at 66 was constructed, and it was decoded
C1_Witness ==
    /\ input.some
    /\ has(input.val, ETH, 67)
    /\ ~has(input.val, ETH, 66)
    /\ Len(input.val) = 2
    /\ caps.val.eth_67
    /\ decoded.some
    /\ decoded.val.ok

\* C2: decoding the bytes that encoding a Capabilities value produced
\* succeeds and yields an equal value: the same sequence in the same order
\* and the same eth_66 / eth_67 flags.
C2_RoundTrip ==
    (caps.some /\ wire.some /\ decoded.some) =>
        /\ decoded.val.ok
        /\ decoded.val.val = caps.val
        /\ decoded.val.val.inner = input.val
        /\ decoded.val.val.eth_66 = caps.val.eth_66
        /\ decoded.val.val.eth_67 = caps.val.eth_67

\* the list <<eth/67, "xx...x"/300>> went through encode and decode
C2_Witness ==
    /\ caps.some
    /\ wire.some
    /\ decoded.some
    /\ input.val = <<[name |-> ETH, version |-> 67], [name |-> NameLong, version |-> 300]>>
    /\ decoded.val.ok
    /\ decoded.val.val.eth_67

\* C3: for the eth versions 66 and 67 and every offset,
\* SharedCapability::new("eth", v, o) succeeds with the value
\* Eth { version: Eth66 / Eth67, offset: o }, and name(), version() and
\* offset() of it return "eth", v and o.
C3_NewEth ==
    (call.some /\ call.val.name = ETH /\ call.val.version \in {66, 67}) =>
        /\ call.val.res.ok
        /\ call.val.res.val =
              [tag |-> "Eth",
               version |-> IF call.val.version = 66 THEN "Eth66" ELSE "Eth67",
               offset |-> call.val.offset]
        /\ proj.some =>
              /\ proj.val.name = ETH
              /\ proj.val.version = call.val.version
              /\ proj.val.offset = call.val.offset

\* new("eth", 66, 255) succeeded and its projections were read
C3_Witness ==
    /\ call.some
    /\ call.val.name = ETH
    /\ call.val.version = 66
    /\ call.val.offset = U8Max
    /\ call.val.res.ok
    /\ proj.some

\* C4: for every version byte outside the supported enumeration and every
\* offset, new("eth", v, o) fails with UnsupportedVersion wrapping the parse
\* error for v and yields no value; and new fails in no other case and with
\* no other error kind.
C4_NewEthUnsupported ==
    call.some =>
        /\ (call.val.name = ETH /\ call.val.version \notin {66, 67}) =>
              /\ ~call.val.res.ok
              /\ call.val.res.err =
                    [kind |-> "UnsupportedVersion",
                     source |-> [ParseVersionError |-> call.val.version]]
        /\ ~call.val.res.ok =>
              /\ call.val.name = ETH
              /\ call.val.version \notin {66, 67}
              /\ call.val.res.err.kind = "UnsupportedVersion"
              /\ ~proj.some

\* new("eth", 9, 0) failed
C4_Witness ==
    /\ call.some
    /\ call.val.name = ETH
    /\ call.val.version = 9
    /\ call.val.offset = 0
    /\ ~call.val.res.ok

\* C5: for every name other than "eth", also one that differs from it in
\* letter case only, every version and every offset, new succeeds with
\* UnknownCapability holding name, version and offset verbatim, and name(),
\* version() and offset() return them.
C5_NewUnknown ==
    (call.some /\ call.val.name # ETH) =>
        /\ call.val.res.ok
        /\ call.val.res.val =
              [tag |-> "UnknownCapability", name |-> call.val.name,
               version |-> call.val.version, offset |-> call.val.offset]
        /\ proj.some =>
              /\ proj.val.name = call.val.name
              /\ proj.val.version = call.val.version
              /\ proj.val.offset = call.val.offset

\* new("Eth", 9, 255) succeeded and its projections were read
C5_Witness ==
    /\ call.some
    /\ call.val.name = NameEthUpper
    /\ call.val.version = 9
    /\ call.val.offset = U8Max
    /\ call.val.res.ok
    /\ proj.some

\* C6: num_messages() fails exactly on the UnknownCapability shape, with the
\* error UnknownCapability, while name() and offset() still return what the
\* value was built with; on the Eth shape it returns the table's count for
\* the version, whatever the offset.
C6_NumMessages ==
    proj.some =>
        LET self == call.val.res.val
            n == proj.val.num_messages
        IN  /\ ~n.ok <=> self.tag = "UnknownCapability"
            /\ ~n.ok =>
                  /\ n.err.kind = "UnknownCapability"
                  /\ proj.val.name = call.val.name
                  /\ proj.val.offset = call.val.offset
            /\ self.tag = "Eth" =>
                  /\ n.ok
                  /\ n.val = msgTable[IF call.val.version = 66 THEN "Eth66" ELSE "Eth67"]

\* num_messages() failed on new("les", 1, 3)
C6_Witness ==
    /\ proj.some
    /\ call.val.name = NameLes
    /\ call.val.version = 1
    /\ call.val.offset = 3
    /\ ~proj.val.num_messages.ok

\* the scenario of C7: A = eth 67 at offset 0, then an unknown capability B
C7_Scenario ==
    /\ Len(session) >= 2
    /\ session[1].cap = [tag |-> "Eth", version |-> "Eth67", offset |-> 0]
    /\ session[2].cap.tag = "UnknownCapability"

\* the capabilities an id resolves to when A spans [0, m) and B spans [m, m + w)
C7_Expected(id, m, w) ==
    IF id < m THEN {1} ELSE IF id < m + w THEN {2} ELSE {}

\* C7 as stated: with A = eth 67 at offset 0 and an unknown B at offset M,
\* the ranges [offset, offset + num_messages) are contiguous and disjoint,
\* ids in [0, M) resolve to A, ids in [M, M + count(B)) to B, other ids to
\* neither, and every range's bounds come from offset() and num_messages()
\* of the resolved values.
C7_AsStated ==
    C7_Scenario =>
        LET A == session[1].cap
            B == session[2].cap
        IN  /\ num_messages(A).ok
            /\ num_messages(B).ok
            /\ offset(A) = 0
            /\ offset(B) = offset(A) + num_messages(A).val
            /\ routed.some =>
                  routed.val.to =
                      C7_Expected(routed.val.id, offset(B), num_messages(B).val)

\* C7 amended: the same, except that only A's width comes from
\* num_messages(); on B num_messages() fails and the width of B's range is
\* the count the caller supplies.
C7_Amended ==
    C7_Scenario =>
        LET A == session[1].cap
            B == session[2].cap
            M == msgTable["Eth67"]
            w == session[2].width
        IN  /\ num_messages(A) = [ok |-> TRUE, val |-> M]
            /\ ~num_messages(B).ok
            /\ offset(A) = 0
            /\ offset(B) = M
            /\ (0..(M - 1)) \cap (M..(M + w - 1)) = {}
            /\ routed.some =>
                  /\ Cardinality(routed.val.to) <= 1
                  /\ Len(session) = 2 => routed.val.to = C7_Expected(routed.val.id, M, w)

\* with M = 2, an id of B's range was dispatched and resolved to B alone
C7_Witness ==
    /\ C7_Scenario
    /\ Len(session) = 2
    /\ msgTable["Eth67"] = 2
    /\ routed.some
    /\ routed.val.id >= 2
    /\ routed.val.to = {2}

\* C8: new keeps no state between calls: in a sequence of calls each outcome
\* is decided by that call's arguments alone, so a call fails only for "eth"
\* at an unsupported version, whatever the offsets of the calls before it,
\* and a successful call holds the offset it was given.
C8_CallsIndependent ==
    \A i \in 1..Len(log) :
        /\ log[i].res.ok <=> ~(log[i].name = ETH /\ log[i].version \notin {66, 67})
        /\ log[i].res.ok => log[i].res.val.offset = log[i].offset
        /\ \A j \in 1..Len(log) :
              (/\ log[j].name = log[i].name
               /\ log[j].version = log[i].version
               /\ log[j].offset = log[i].offset) => log[j].res = log[i].res

\* eth 67 at offset 3, then eth 66 at offset 0: a smaller offset, overlapping
C8_Witness ==
    /\ Len(log) = 2
    /\ log[1].name = ETH /\ log[1].version = 67 /\ log[1].offset = 3
    /\ log[2].name = ETH /\ log[2].version = 66 /\ log[2].offset = 0
    /\ log[1].res.ok
    /\ log[2].res.ok

\* C9: building the advertisement never fails and checks no version: a list
\* with "eth" at an unsupported version is constructed, with both flags
\* false unless it also holds eth 66 / 67; UnsupportedVersion arises only
\* from SharedCapability::new for "eth" at such a version.
C9_ValidationDeferred ==
    /\ input.some =>
          /\ caps.some
          /\ capabilities(caps.val) = input.val
          /\ ~has(input.val, ETH, 66) => ~supports_eth_v66(caps.val)
          /\ ~has(input.val, ETH, 67) => ~supports_eth_v67(caps.val)
    /\ (call.some /\ ~call.val.res.ok) =>
          /\ call.val.name = ETH
          /\ call.val.version \notin {66, 67}
          /\ call.val.res.err.kind = "UnsupportedVersion"

\* a list holding eth/9 was built with both flags false, and resolving
\* eth/9 then failed
C9_Witness ==
    /\ input.some
    /\ has(input.val, ETH, 9)
    /\ caps.some
    /\ ~caps.val.eth_66
    /\ ~caps.val.eth_67
    /\ call.some
    /\ call.val.version = 9
    /\ ~call.val.res.ok

\* every Capabilities value in hand: the constructed one and the decoded one
C10_Values ==
    (IF caps.some THEN {caps.val} ELSE {})
        \cup (IF decoded.some /\ decoded.val.ok THEN {decoded.val.val} ELSE {})

\* C10: supports_eth() is supports_eth_v66() or supports_eth_v67(), true
\* exactly when the list holds "eth" at 66 or 67; other versions of "eth"
\* and 66 / 67 under another name do not count.
C10_SupportsEth ==
    \A c \in C10_Values :
        /\ supports_eth(c) = (supports_eth_v66(c) \/ supports_eth_v67(c))
        /\ supports_eth(c) = (has(c.inner, ETH, 66) \/ has(c.inner, ETH, 67))

\* <<eth/9, Eth/66>> was constructed and does not support eth
C10_Witness ==
    /\ caps.some
    /\ caps.val.inner = <<[name |-> ETH, version |-> 9], [name |-> NameEthUpper, version |-> 66]>>
    /\ ~supports_eth(caps.val)

====
